---------------------------- MODULE Spec2Model ----------------------------
(* Model of src/data_transformation.py: split_call_by_hour (the interval   *)
(* splitter) and transform_for_time_heatmap (the grid aggregator).         *)
(*                                                                         *)
(* Timestamps are whole minutes counted from a Monday 00:00 of the view's  *)
(* wall clock, so dayofweek (Monday = 0), hour and minute are arithmetic.  *)
(* A float cell of a DataFrame is Val(n); a missing cell is NaN.           *)
(*                                                                         *)
(* From src/main.py: the two places that compute the start of a date's     *)
(* week, Week_Start_Date of the calendar heatmap and Interval of the call  *)
(* duration trend. A date is the minute count of its midnight; day 0 is    *)
(* Monday 2024-01-01.                                                      *)
EXTENDS Integers, Sequences, FiniteSets, TLC

VARIABLES df_combined, row, sg_minutes, nz_minutes,
          sg_minutes_df, nz_minutes_df, df_week_combinations, pc,
          calendar_data, trend_data, time_interval

\* the frames and the selectbox value of src/main.py
mainVars == <<calendar_data, trend_data, time_interval>>

vars == <<df_combined, row, sg_minutes, nz_minutes,
          sg_minutes_df, nz_minutes_df, df_week_combinations, pc, mainVars>>

---------------------------------------------------------------------------
(* Program constants *)

MinutesPerHour == 60
HoursPerDay == 24
DaysPerWeek == 7
MinutesPerDay == MinutesPerHour * HoursPerDay

(* Bounds of the model *)

MaxCalls == 2
MaxHours == 2
\* the dates of df_calendar are days 0..MaxDate
MaxDate == 40

---------------------------------------------------------------------------
(* pandas helpers, modelled by what they compute *)

Max2(a, b) == IF a >= b THEN a ELSE b
Min2(a, b) == IF a <= b THEN a ELSE b

\* Series.dt.dayofweek: Monday = 0 ... Sunday = 6
dayofweek(t) == (t \div MinutesPerDay) % DaysPerWeek
\* Series.dt.hour
hour(t) == (t \div MinutesPerHour) % HoursPerDay
\* Timestamp.minute
minute(t) == t % MinutesPerHour

\* pd.date_range(start, end, freq='h'): start, start+1h, ... while <= end.
\* The range is anchored at start itself, not at an hour boundary.
date_range(start, end) ==
    IF end < start THEN <<>>
    ELSE [k \in 1..((end - start) \div MinutesPerHour + 1) |->
              start + (k - 1) * MinutesPerHour]

\* a real cell and the missing cell of a DataFrame column
Val(n) == <<n>>
NaN == <<>>

---------------------------------------------------------------------------
(* split_call_by_hour *)

\* Variant of the loop body that keys the bucket by end_in_this_hour.
ContributionBucketEnd(start_time, end_time, start_interval, end_interval, time_zone) ==
    LET start_in_this_hour == Max2(start_time, start_interval)
        end_in_this_hour == Min2(end_time, end_interval)
        minutes_in_this_hour == end_in_this_hour - start_in_this_hour
    IN  IF minutes_in_this_hour > 0
        THEN <<[time_bucket |-> end_in_this_hour,
                minutes |-> minutes_in_this_hour,
                time_zone |-> time_zone]>>
        ELSE <<>>

\* One pass of the loop body: what it appends to split_minutes.
Contribution(start_time, end_time, start_interval, end_interval, time_zone) ==
    LET start_in_this_hour == Max2(start_time, start_interval)
        end_in_this_hour == Min2(end_time, end_interval)
        minutes_in_this_hour == end_in_this_hour - start_in_this_hour
    IN  IF minutes_in_this_hour > 0
        THEN <<[time_bucket |-> start_in_this_hour,
                minutes |-> minutes_in_this_hour,
                time_zone |-> time_zone]>>
        ELSE <<>>

RECURSIVE SplitLoop(_, _, _, _, _)
\* for i in range(len(time_range) - 1), from i on (i is 1-based here)
SplitLoop(start_time, end_time, time_zone, time_range, i) ==
    IF i > Len(time_range) - 1 THEN <<>>
    ELSE Contribution(start_time, end_time, time_range[i], time_range[i + 1], time_zone)
         \o SplitLoop(start_time, end_time, time_zone, time_range, i + 1)

\* Variant that returns the whole call as one contribution when the range
\* holds no full hour.
split_call_whole_when_short(start_time, end_time, time_zone) ==
    LET time_range == date_range(start_time, end_time)
    IN  IF Len(time_range) < 2
        THEN <<[time_bucket |-> start_time,
                minutes |-> end_time - start_time,
                time_zone |-> time_zone]>>
        ELSE SplitLoop(start_time, end_time, time_zone, time_range, 1)

split_call_by_hour(start_time, end_time, time_zone) ==
    SplitLoop(start_time, end_time, time_zone, date_range(start_time, end_time), 1)

---------------------------------------------------------------------------
(* transform_for_time_heatmap: the frames *)

\* Variant that keeps the Monday-based numbering.
WeekdayNoShift(time_bucket) == dayofweek(time_bucket) % DaysPerWeek

\* (dayofweek + 1) % 7: 0 = Sunday ... 6 = Saturday
Weekday(time_bucket) == (dayofweek(time_bucket) + 1) % DaysPerWeek

\* pd.DataFrame(list of dicts) with the Weekday and Hour columns added
WithWeekdayHour(minutes_list) ==
    [k \in 1..Len(minutes_list) |->
        [time_bucket |-> minutes_list[k].time_bucket,
         minutes |-> minutes_list[k].minutes,
         time_zone |-> minutes_list[k].time_zone,
         Weekday |-> Weekday(minutes_list[k].time_bucket),
         Hour |-> hour(minutes_list[k].time_bucket)]]

RECURSIVE SumMinutes(_)
SumMinutes(rows) ==
    IF rows = <<>> THEN 0 ELSE Head(rows).minutes + SumMinutes(Tail(rows))

KeyLess(a, b) == a[1] < b[1] \/ (a[1] = b[1] /\ a[2] < b[2])

RECURSIVE SortKeys(_)
SortKeys(S) ==
    IF S = {} THEN <<>>
    ELSE LET m == CHOOSE x \in S : \A y \in S : x = y \/ KeyLess(x, y)
         IN  <<m>> \o SortKeys(S \ {m})

GroupRows(df, key) ==
    SelectSeq(df, LAMBDA r : r.Weekday = key[1] /\ r.Hour = key[2])

\* Variant of the aggregation that takes 'max' instead of 'sum'.
AggMax(rows) ==
    CHOOSE m \in {rows[k].minutes : k \in 1..Len(rows)} :
        \A k \in 1..Len(rows) : rows[k].minutes <= m

\* agg({'minutes': 'sum'}) on one group
AggSum(rows) == SumMinutes(rows)

RECURSIVE ConsecutiveGroups(_, _)
\* one group per run of adjacent rows with the same key, from row i on
ConsecutiveGroups(df, i) ==
    IF i > Len(df) THEN <<>>
    ELSE LET same(m) == df[m].Weekday = df[i].Weekday /\ df[m].Hour = df[i].Hour
             j == CHOOSE n \in i..Len(df) :
                      /\ \A m \in i..n : same(m)
                      /\ (n = Len(df) \/ ~same(n + 1))
         IN  <<[Weekday |-> df[i].Weekday, Hour |-> df[i].Hour,
                minutes |-> AggSum(SubSeq(df, i, j))]>>
             \o ConsecutiveGroups(df, j + 1)

\* Variant of the grouping that only groups adjacent rows (no hashing, no sort).
groupby_consecutive(df) == ConsecutiveGroups(df, 1)

\* groupby(['Weekday', 'Hour']).agg({'minutes': 'sum'}).reset_index()
groupby_agg(df) ==
    LET keys == SortKeys({<<df[k].Weekday, df[k].Hour>> : k \in 1..Len(df)})
    IN  [k \in 1..Len(keys) |->
            [Weekday |-> keys[k][1], Hour |-> keys[k][2],
             minutes |-> AggSum(GroupRows(df, keys[k]))]]

\* itertools.product(days_of_week, hours_of_day) as a frame
week_combinations ==
    [k \in 1..(DaysPerWeek * HoursPerDay) |->
        [Day_of_Week |-> (k - 1) \div HoursPerDay, Hour |-> (k - 1) % HoursPerDay]]

RECURSIVE Flatten(_)
\* concatenation of a sequence of sequences (by halves)
Flatten(ss) ==
    IF Len(ss) = 0 THEN <<>>
    ELSE IF Len(ss) = 1 THEN ss[1]
    ELSE LET h == Len(ss) \div 2
         IN  Flatten(SubSeq(ss, 1, h)) \o Flatten(SubSeq(ss, h + 1, Len(ss)))

\* Variant of the merge with how='inner': left rows without a match are dropped.
merge_inner(left, right, col) ==
    Flatten([k \in 1..Len(left) |->
        LET matches == SelectSeq(right, LAMBDA r :
                           r.Weekday = left[k].Day_of_Week /\ r.Hour = left[k].Hour)
        IN  [j \in 1..Len(matches) |->
                left[k] @@ (col :> Val(matches[j].minutes))]])

\* pd.merge(left, right, left_on=[Day_of_Week, Hour], right_on=[Weekday, Hour],
\* how='left') followed by drop(columns=['Weekday']); the minutes column of
\* right arrives under the name col.
merge_left(left, right, col) ==
    Flatten([k \in 1..Len(left) |->
        LET matches == SelectSeq(right, LAMBDA r :
                           r.Weekday = left[k].Day_of_Week /\ r.Hour = left[k].Hour)
        IN  IF matches = <<>>
            THEN <<left[k] @@ (col :> NaN)>>
            ELSE [j \in 1..Len(matches) |->
                     left[k] @@ (col :> Val(matches[j].minutes))]])

RECURSIVE SplitRows(_, _, _)
\* lines 38-43 as a function of the frame: what the loop over the rows
\* leaves in sg_minutes (view "SG") or nz_minutes (view "NZ"), from row k on
SplitRows(batch, view, k) ==
    IF k > Len(batch) THEN <<>>
    ELSE (IF view = "SG"
          THEN split_call_by_hour(batch[k].Start_Datetime_SG,
                                  batch[k].End_Datetime_SG, "SG")
          ELSE split_call_by_hour(batch[k].Start_Datetime_NZ,
                                  batch[k].End_Datetime_NZ, "NZ"))
         \o SplitRows(batch, view, k + 1)

\* transform_for_time_heatmap as a function of df_combined: how the call ends
\* ("returned" or "KeyError") and the table it returns
transform_for_time_heatmap(batch) ==
    LET sg == SplitRows(batch, "SG", 1)
        nz == SplitRows(batch, "NZ", 1)
    IN  IF sg = <<>> \/ nz = <<>>
        THEN [pc |-> "KeyError", table |-> <<>>]
        ELSE [pc |-> "returned",
              table |-> merge_left(
                            merge_left(week_combinations,
                                       groupby_agg(WithWeekdayHour(sg)), "minutes_SG"),
                            groupby_agg(WithWeekdayHour(nz)), "minutes_NZ")]

---------------------------------------------------------------------------
(* Inputs *)

Clock(h, m) == h * MinutesPerHour + m
At(d, h, m) == d * MinutesPerDay + Clock(h, m)

\* call lengths: whole hours plus a remainder; <= 0 is an invalid record
Rems == {-30, 0, 20, 45}
Durations == {MinutesPerHour * h + r : h \in 0..MaxHours, r \in Rems}

\* wall-clock offsets of the NZ view from the SG view (NZST, NZDT)
TzOffsets == {240, 300}

Record(start, dur, off) ==
    [Start_Datetime_SG |-> start, End_Datetime_SG |-> start + dur,
     Start_Datetime_NZ |-> start + off, End_Datetime_NZ |-> start + dur + off]

StartClocks == {Clock(9, 15), Clock(9, 50), Clock(10, 0), Clock(10, 30),
                Clock(22, 40), Clock(23, 0)}
AllStarts == {d * MinutesPerDay + c : d \in 0..(DaysPerWeek - 1), c \in StartClocks}
AllRecords == {Record(s, d, o) : s \in AllStarts, d \in Durations, o \in TzOffsets}

\* Monday 09:15, Monday 09:50, Saturday 22:40 (day 0 is a Monday)
BatchStarts == {At(0, 9, 15), At(0, 9, 50), At(5, 22, 40)}
\* lengths of the calls of a batch; <= 0 is an invalid record
BatchDurations == {-30, 20, 30, 60, 120}
BatchRecords == {Record(s, d, 300) : s \in BatchStarts, d \in BatchDurations}
Batches == UNION {[1..n -> BatchRecords] : n \in 0..MaxCalls}

---------------------------------------------------------------------------
(* The state machine of one invocation of transform_for_time_heatmap *)

Start(batch) ==
    /\ df_combined = batch
    /\ row = 0
    /\ sg_minutes = <<>>
    /\ nz_minutes = <<>>
    /\ sg_minutes_df = <<>>
    /\ nz_minutes_df = <<>>
    /\ df_week_combinations = <<>>
    /\ pc = "iterrows"
    /\ calendar_data = <<>>
    /\ trend_data = <<>>
    /\ time_interval = "Days"

Init == \E batch \in Batches : Start(batch)

InitOneCall == \E r \in AllRecords : Start(<<r>>)

\* Variant of the loop body that assigns the lists instead of extending them.
IterRowAssign ==
    /\ pc = "iterrows"
    /\ row < Len(df_combined)
    /\ LET r == df_combined[row + 1]
       IN  /\ sg_minutes' =
                  split_call_by_hour(r.Start_Datetime_SG, r.End_Datetime_SG, "SG")
           /\ nz_minutes' =
                  split_call_by_hour(r.Start_Datetime_NZ, r.End_Datetime_NZ, "NZ")
    /\ row' = row + 1
    /\ UNCHANGED <<df_combined, sg_minutes_df, nz_minutes_df, df_week_combinations, pc>>
    /\ UNCHANGED mainVars

\* lines 38-43: one pass of the loop over the rows
IterRow ==
    /\ pc = "iterrows"
    /\ row < Len(df_combined)
    /\ LET r == df_combined[row + 1]
       IN  /\ sg_minutes' = sg_minutes \o
                  split_call_by_hour(r.Start_Datetime_SG, r.End_Datetime_SG, "SG")
           /\ nz_minutes' = nz_minutes \o
                  split_call_by_hour(r.Start_Datetime_NZ, r.End_Datetime_NZ, "NZ")
    /\ row' = row + 1
    /\ UNCHANGED <<df_combined, sg_minutes_df, nz_minutes_df, df_week_combinations, pc>>
    /\ UNCHANGED mainVars

\* lines 46-51: pd.DataFrame([]) has no columns, so ['time_bucket'] raises
RaiseKeyError ==
    /\ pc = "iterrows"
    /\ row = Len(df_combined)
    /\ (sg_minutes = <<>> \/ nz_minutes = <<>>)
    /\ pc' = "KeyError"
    /\ UNCHANGED <<df_combined, row, sg_minutes, nz_minutes,
                   sg_minutes_df, nz_minutes_df, df_week_combinations>>
    /\ UNCHANGED mainVars

\* lines 46-55: the two frames with their Weekday and Hour columns
BuildFrames ==
    /\ pc = "iterrows"
    /\ row = Len(df_combined)
    /\ sg_minutes # <<>>
    /\ nz_minutes # <<>>
    /\ sg_minutes_df' = WithWeekdayHour(sg_minutes)
    /\ nz_minutes_df' = WithWeekdayHour(nz_minutes)
    /\ pc' = "aggregate"
    /\ UNCHANGED <<df_combined, row, sg_minutes, nz_minutes, df_week_combinations>>
    /\ UNCHANGED mainVars

\* lines 57-102: group, sum, and left-join onto the 7 x 24 grid
AggregateAndMerge ==
    /\ pc = "aggregate"
    /\ LET sg_agg == groupby_agg(sg_minutes_df)
           nz_agg == groupby_agg(nz_minutes_df)
       IN  df_week_combinations' =
               merge_left(merge_left(week_combinations, sg_agg, "minutes_SG"),
                          nz_agg, "minutes_NZ")
    /\ pc' = "returned"
    /\ UNCHANGED <<df_combined, row, sg_minutes, nz_minutes, sg_minutes_df, nz_minutes_df>>
    /\ UNCHANGED mainVars

Next == IterRow \/ RaiseKeyError \/ BuildFrames \/ AggregateAndMerge

Spec == Init /\ [][Next]_vars

SpecOneCall == InitOneCall /\ [][Next]_vars

---------------------------------------------------------------------------
(* src/main.py: the week of a date, in the calendar heatmap and in the trend *)

\* pd.to_timedelta(n, unit='d')
to_timedelta_d(n) == n * MinutesPerDay

\* days in the months of 2024
MonthLengths == <<31, 29, 31, 30, 31, 30, 31, 31, 30, 31, 30, 31>>

RECURSIVE DaysBeforeMonth(_)
DaysBeforeMonth(m) == IF m = 1 THEN 0 ELSE DaysBeforeMonth(m - 1) + MonthLengths[m - 1]

\* Series.dt.to_period('M').dt.start_time, for the dates of 2024
MonthStart(date) ==
    LET d == date \div MinutesPerDay
        m == CHOOSE n \in 1..Len(MonthLengths) :
                 /\ DaysBeforeMonth(n) <= d
                 /\ d < DaysBeforeMonth(n) + MonthLengths[n]
    IN  to_timedelta_d(DaysBeforeMonth(m))

\* the dates of df_calendar
Dates == {to_timedelta_d(d) : d \in 0..MaxDate}

TimeIntervals == {"Days", "Weeks", "Months"}

InitMain ==
    /\ \E date \in Dates :
          /\ calendar_data = <<[date |-> date]>>
          /\ trend_data = <<[date |-> date]>>
    /\ time_interval \in TimeIntervals
    /\ df_combined = <<>>
    /\ row = 0
    /\ sg_minutes = <<>>
    /\ nz_minutes = <<>>
    /\ sg_minutes_df = <<>>
    /\ nz_minutes_df = <<>>
    /\ df_week_combinations = <<>>
    /\ pc = "not called"

HasColumn(df, col) == \A k \in 1..Len(df) : col \in DOMAIN df[k]

transformVars == <<df_combined, row, sg_minutes, nz_minutes,
                   sg_minutes_df, nz_minutes_df, df_week_combinations, pc>>

\* main.py 156-160: Weekday and Week_Start_Date of the calendar heatmap
CalendarWeekStart ==
    /\ ~HasColumn(calendar_data, "Week_Start_Date")
    /\ calendar_data' =
          [k \in 1..Len(calendar_data) |->
              LET date == calendar_data[k].date
                  Wd == (dayofweek(date) + 1) % DaysPerWeek
              IN  [date |-> date, Weekday |-> Wd,
                   Week_Start_Date |-> date - to_timedelta_d(Wd)]]
    /\ UNCHANGED <<trend_data, time_interval, transformVars>>

\* main.py 450-456: Interval of the call duration trend
TrendInterval ==
    /\ ~HasColumn(trend_data, "Interval")
    /\ trend_data' =
          [k \in 1..Len(trend_data) |->
              LET date == trend_data[k].date
              IN  [date |-> date,
                   Interval |->
                      IF time_interval = "Days" THEN date
                      ELSE IF time_interval = "Weeks"
                      THEN date - to_timedelta_d(dayofweek(date) + 1)
                      ELSE MonthStart(date)]]
    /\ UNCHANGED <<calendar_data, time_interval, transformVars>>

NextMain == CalendarWeekStart \/ TrendInterval

SpecMain == InitMain /\ [][NextMain]_vars

---------------------------------------------------------------------------
(* Vocabulary of the properties *)

Valid(r) == /\ r.End_Datetime_SG > r.Start_Datetime_SG
            /\ r.End_Datetime_NZ > r.Start_Datetime_NZ

AllValid == \A k \in 1..Len(df_combined) : Valid(df_combined[k])

\* the single call of SpecOneCall, once split_call_by_hour has run on it
OneCallSplit == Len(df_combined) = 1 /\ row = 1
TheCall == df_combined[1]

HourFloor(t) == (t \div MinutesPerHour) * MinutesPerHour

\* the reference splitter: one contribution per wall-clock hour [H, H + 60)
\* from the hour of start to the hour of end, where the overlap is positive
RefSplit(start, end) ==
    LET n == (HourFloor(end) - HourFloor(start)) \div MinutesPerHour + 1
        H(k) == HourFloor(start) + (k - 1) * MinutesPerHour
        overlap(k) == Min2(end, H(k) + MinutesPerHour) - Max2(start, H(k))
        all == [k \in 1..n |-> [time_bucket |-> H(k), minutes |-> overlap(k)]]
    IN  SelectSeq(all, LAMBDA c : c.minutes > 0)

BucketMinutes(list) ==
    [k \in 1..Len(list) |->
        [time_bucket |-> list[k].time_bucket, minutes |-> list[k].minutes]]

Contributions == {sg_minutes[k] : k \in 1..Len(sg_minutes)}
                 \cup {nz_minutes[k] : k \in 1..Len(nz_minutes)}

Finished == pc \in {"returned", "KeyError"}

Cells == (0..(DaysPerWeek - 1)) \X (0..(HoursPerDay - 1))

RowsOf(w, h) ==
    {k \in 1..Len(df_week_combinations) :
        /\ df_week_combinations[k].Day_of_Week = w
        /\ df_week_combinations[k].Hour = h}

\* the cell that a list of (time_bucket, minutes) pairs gives to (w, h), with
\* the Sunday-first weekday taken from the calendar day of the bucket
SundayFirst == <<1, 2, 3, 4, 5, 6, 0>>
CellOf(list, w, h) ==
    LET sel == SelectSeq(list, LAMBDA c :
                   /\ SundayFirst[dayofweek(c.time_bucket) + 1] = w
                   /\ hour(c.time_bucket) = h)
    IN  IF sel = <<>> THEN NaN ELSE Val(SumMinutes(sel))

RECURSIVE RefContributions(_, _)
\* what the reference splitter gives for every call of the batch, from call k on
RefContributions(view, k) ==
    IF k > Len(df_combined) THEN <<>>
    ELSE (IF view = "SG"
          THEN RefSplit(df_combined[k].Start_Datetime_SG, df_combined[k].End_Datetime_SG)
          ELSE RefSplit(df_combined[k].Start_Datetime_NZ, df_combined[k].End_Datetime_NZ))
         \o RefContributions(view, k + 1)

\* how the call of this behaviour ended, and its table
Outcome == [pc |-> pc, table |-> df_week_combinations]

\* a frame without its k-th row
RemoveAt(batch, k) ==
    [i \in 1..(Len(batch) - 1) |-> IF i < k THEN batch[i] ELSE batch[i + 1]]

\* every reordering of a frame's rows
Perms(batch) ==
    LET n == Len(batch)
        bij == {f \in [1..n -> 1..n] : \A i, j \in 1..n : f[i] = f[j] => i = j}
    IN  {[k \in 1..n |-> batch[f[k]]] : f \in bij}

---------------------------------------------------------------------------
(* Properties of split_call_by_hour, checked under SpecOneCall *)

\* C1 - Minute conservation: for a call with end > start, the minutes of the
\* contributions split_call_by_hour returns add up to end - start, in each view.
C1_MinuteConservation ==
    (OneCallSplit /\ Valid(TheCall)) =>
        /\ SumMinutes(sg_minutes) = TheCall.End_Datetime_SG - TheCall.Start_Datetime_SG
        /\ SumMinutes(nz_minutes) = TheCall.End_Datetime_NZ - TheCall.Start_Datetime_NZ

\* C2 - Cross-hour split: for a call with end > start, split_call_by_hour
\* returns exactly the contributions of the reference splitter (one per
\* wall-clock hour with positive overlap, bucket_start = the hour).
C2_CrossHourSplit ==
    (OneCallSplit /\ Valid(TheCall)) =>
        /\ BucketMinutes(sg_minutes)
             = RefSplit(TheCall.Start_Datetime_SG, TheCall.End_Datetime_SG)
        /\ BucketMinutes(nz_minutes)
             = RefSplit(TheCall.Start_Datetime_NZ, TheCall.End_Datetime_NZ)

\* C3 - Hour alignment: every contribution's time_bucket has minute offset 0.
C3_HourAlignment ==
    \A c \in Contributions : minute(c.time_bucket) = 0

\* C4 - Single-hour call: a call with start < end inside one wall-clock hour
\* yields exactly one contribution, of end - start minutes, in that hour.
C4_SingleHourCall ==
    (/\ OneCallSplit
     /\ TheCall.Start_Datetime_SG < TheCall.End_Datetime_SG
     /\ HourFloor(TheCall.Start_Datetime_SG) = HourFloor(TheCall.End_Datetime_SG)) =>
        /\ Len(sg_minutes) = 1
        /\ sg_minutes[1].minutes = TheCall.End_Datetime_SG - TheCall.Start_Datetime_SG
        /\ HourFloor(sg_minutes[1].time_bucket) = HourFloor(TheCall.Start_Datetime_SG)

\* C5 - Boundary exactness: no contribution has zero or negative minutes; a
\* call ending exactly on an hour boundary gets no contribution in the hour
\* beginning at its end; a call from a boundary H to H + 60 yields exactly one
\* contribution, of 60 minutes, at bucket H.
C5_BoundaryExactness ==
    /\ \A c \in Contributions : c.minutes > 0
    /\ OneCallSplit =>
        /\ minute(TheCall.End_Datetime_SG) = 0 =>
              \A k \in 1..Len(sg_minutes) :
                  HourFloor(sg_minutes[k].time_bucket) # TheCall.End_Datetime_SG
        /\ minute(TheCall.End_Datetime_NZ) = 0 =>
              \A k \in 1..Len(nz_minutes) :
                  HourFloor(nz_minutes[k].time_bucket) # TheCall.End_Datetime_NZ
        /\ (/\ minute(TheCall.Start_Datetime_SG) = 0
            /\ TheCall.End_Datetime_SG = TheCall.Start_Datetime_SG + MinutesPerHour) =>
              sg_minutes = <<[time_bucket |-> TheCall.Start_Datetime_SG,
                              minutes |-> MinutesPerHour, time_zone |-> "SG"]>>

\* a call from an hour boundary H to H + 60 has been split into one contribution
C5_Witness ==
    /\ OneCallSplit
    /\ minute(TheCall.Start_Datetime_SG) = 0
    /\ TheCall.End_Datetime_SG = TheCall.Start_Datetime_SG + MinutesPerHour
    /\ Len(sg_minutes) = 1

---------------------------------------------------------------------------
(* Properties of transform_for_time_heatmap, checked under Spec *)

\* C6 - Grid completeness: for every non-empty batch of valid records, sparse
\* ones included, the call returns a table of exactly 168 rows, one for every
\* (Day_of_Week, Hour) pair.
C6_GridCompleteness ==
    (Finished /\ df_combined # <<>> /\ AllValid) =>
        /\ pc = "returned"
        /\ Len(df_week_combinations) = DaysPerWeek * HoursPerDay
        /\ \A key \in Cells : Cardinality(RowsOf(key[1], key[2])) = 1

\* C7 - Empty input is not an error: on a batch of zero records the call
\* returns a table of 168 rows whose cells are all 'no data'.
C7_EmptyInput ==
    (Finished /\ df_combined = <<>>) =>
        /\ pc = "returned"
        /\ Len(df_week_combinations) = DaysPerWeek * HoursPerDay
        /\ \A k \in 1..Len(df_week_combinations) :
              /\ df_week_combinations[k].minutes_SG = NaN
              /\ df_week_combinations[k].minutes_NZ = NaN

\* C8 - Aggregator sum: in the returned table, for each view and each
\* (weekday w, hour h), the cell is the sum of the minutes of the contributions
\* split_call_by_hour emitted for that view whose bucket has shifted weekday w
\* and hour h, and is 'no data' (not 0) when there is no such contribution.
C8_AggregatorSum ==
    pc = "returned" =>
        \A key \in Cells :
            /\ RowsOf(key[1], key[2]) # {}
            /\ \A k \in RowsOf(key[1], key[2]) :
                  /\ df_week_combinations[k].minutes_SG
                       = CellOf(sg_minutes, key[1], key[2])
                  /\ df_week_combinations[k].minutes_NZ
                       = CellOf(nz_minutes, key[1], key[2])

\* a table was returned in which one cell adds up the contributions of two
\* calls and another cell is 'no data'
C8_Witness ==
    /\ pc = "returned"
    /\ \E k \in 1..Len(df_week_combinations) :
          /\ df_week_combinations[k].minutes_SG = Val(2 * MinutesPerHour)
          /\ Len(SelectSeq(sg_minutes_df, LAMBDA r :
                 /\ r.Weekday = df_week_combinations[k].Day_of_Week
                 /\ r.Hour = df_week_combinations[k].Hour)) = 2
    /\ \E k \in 1..Len(df_week_combinations) :
          df_week_combinations[k].minutes_SG = NaN

\* C9 - End-to-end attribution: in the table returned for a batch of valid
\* calls, each cell (w, h) of a view holds the minutes during which the calls
\* were in progress inside wall-clock hour h on weekday w of that view, and
\* every other cell is 'no data'.
C9_EndToEndAttribution ==
    (pc = "returned" /\ AllValid) =>
        \A k \in 1..Len(df_week_combinations) :
            LET w == df_week_combinations[k].Day_of_Week
                h == df_week_combinations[k].Hour
            IN  /\ df_week_combinations[k].minutes_SG
                     = CellOf(RefContributions("SG", 1), w, h)
                /\ df_week_combinations[k].minutes_NZ
                     = CellOf(RefContributions("NZ", 1), w, h)

\* C10 - Weekday convention: the weekday assigned to every contribution is
\* (Monday-based day of week of its time_bucket + 1) mod 7: always in 0..6,
\* Sunday 0, Monday 1, ..., Saturday 6, in both views.
C10_WeekdayConvention ==
    \A df \in {sg_minutes_df, nz_minutes_df} :
        \A k \in 1..Len(df) :
            /\ df[k].Weekday \in 0..6
            /\ df[k].Weekday = (dayofweek(df[k].time_bucket) + 1) % 7
            /\ df[k].Weekday = SundayFirst[dayofweek(df[k].time_bucket) + 1]

\* the frames hold a Saturday bucket numbered 6 (SG) and a Sunday bucket
\* numbered 0 (NZ)
C10_Witness ==
    /\ pc = "returned"
    /\ \E k \in 1..Len(sg_minutes_df) :
          dayofweek(sg_minutes_df[k].time_bucket) = 5 /\ sg_minutes_df[k].Weekday = 6
    /\ \E k \in 1..Len(nz_minutes_df) :
          dayofweek(nz_minutes_df[k].time_bucket) = 6 /\ nz_minutes_df[k].Weekday = 0

\* C11 - Order independence: for any batch and any permutation of it,
\* transform_for_time_heatmap ends the same way and returns the identical
\* table (same rows, same cells in both view columns).
C11_OrderIndependence ==
    Finished =>
        \A p \in Perms(df_combined) : transform_for_time_heatmap(p) = Outcome

\* a table was returned for two different calls whose contributions meet in
\* one cell, so that the other order of the rows has been compared
C11_Witness ==
    /\ pc = "returned"
    /\ Len(df_combined) = 2
    /\ df_combined[1] # df_combined[2]
    /\ Cardinality(Perms(df_combined)) = 2
    /\ \E k \in 1..Len(df_week_combinations) :
          df_week_combinations[k].minutes_SG = Val(2 * MinutesPerHour)

\* C12 - Partial-failure isolation: an invalid record (end <= start) in a
\* batch changes nothing: the call ends the same way and gives the same cells
\* as on the batch with that record removed.
C12_PartialFailureIsolation ==
    Finished =>
        \A k \in 1..Len(df_combined) :
            ~Valid(df_combined[k]) =>
                transform_for_time_heatmap(RemoveAt(df_combined, k)) = Outcome

\* a table was returned for a batch that holds an invalid record beside a
\* valid one
C12_Witness ==
    /\ pc = "returned"
    /\ \E k \in 1..Len(df_combined) : ~Valid(df_combined[k])
    /\ \E k \in 1..Len(df_combined) : Valid(df_combined[k])

---------------------------------------------------------------------------
(* Further properties of split_call_by_hour, checked under SpecOneCall *)

\* C13 - Degenerate interval: with start = end split_call_by_hour returns an
\* empty list, and with end < start it likewise emits nothing (there is no
\* guard and no error).
C13_DegenerateInterval ==
    OneCallSplit =>
        /\ TheCall.End_Datetime_SG <= TheCall.Start_Datetime_SG => sg_minutes = <<>>
        /\ TheCall.End_Datetime_NZ <= TheCall.Start_Datetime_NZ => nz_minutes = <<>>

\* a call with start = end has been split, into nothing
C13_Witness ==
    /\ OneCallSplit
    /\ TheCall.End_Datetime_SG = TheCall.Start_Datetime_SG
    /\ sg_minutes = <<>>

---------------------------------------------------------------------------
(* Further properties of transform_for_time_heatmap, checked under Spec *)

\* C14 - Deterministic total key enumeration: whenever the call returns,
\* each (Day_of_Week, Hour) pair is in exactly one row, and the rows are in
\* the order Day_of_Week 0..6, Hour 0..23 within each day, whatever the input.
C14_KeyEnumeration ==
    pc = "returned" =>
        /\ \A key \in Cells : Cardinality(RowsOf(key[1], key[2])) = 1
        /\ Len(df_week_combinations) = 7 * 24
        /\ \A k \in 1..Len(df_week_combinations) :
              /\ df_week_combinations[k].Day_of_Week = (k - 1) \div 24
              /\ df_week_combinations[k].Hour = (k - 1) % 24

\* a table was returned in which both joins matched a group and left other
\* keys without one
C14_Witness ==
    /\ pc = "returned"
    /\ \E k \in 1..Len(df_week_combinations) :
          df_week_combinations[k].minutes_SG # NaN
    /\ \E k \in 1..Len(df_week_combinations) :
          df_week_combinations[k].minutes_NZ # NaN
    /\ \E k \in 1..Len(df_week_combinations) :
          /\ df_week_combinations[k].minutes_SG = NaN
          /\ df_week_combinations[k].minutes_NZ = NaN

---------------------------------------------------------------------------
(* Property of src/main.py, checked under SpecMain *)

\* C15 - Week start is the containing week's Sunday: for every date, the
\* week Interval of the 'Weeks' trend is the latest Sunday on or before the
\* date, and equals the Week_Start_Date the calendar heatmap computes for the
\* same date; for all seven weekdays, a Sunday date included.
C15_WeekStartIsContainingSunday ==
    (/\ time_interval = "Weeks"
     /\ HasColumn(trend_data, "Interval")
     /\ HasColumn(calendar_data, "Week_Start_Date")) =>
        \A k \in 1..Len(trend_data) :
            LET date == trend_data[k].date
                Interval == trend_data[k].Interval
            IN  /\ dayofweek(Interval) = 6
                /\ Interval <= date
                /\ date - Interval < to_timedelta_d(7)
                /\ \A j \in 1..Len(calendar_data) :
                      calendar_data[j].date = date =>
                          calendar_data[j].Week_Start_Date = Interval

===========================================================================
